---- MODULE Spec2Model ----
(***************************************************************************)
(* Model of the video-reframe backend gateway: the validation pipeline     *)
(* (app/utils/video_validator.py), the upload client                       *)
(* (app/services/picadabra_service.py), the reframe job client             *)
(* (app/services/fal_service.py) and the endpoints that translate their    *)
(* failures (app/api/v1/endpoints).                                        *)
(*                                                                         *)
(* Conventions.  A Python Optional value is a sequence of length 0 (None)  *)
(* or 1.  A Python str built by an f-string is the sequence of its         *)
(* fragments, so concatenation is \o and "contains" is membership of a     *)
(* fragment.  A dict is a record; a key that is absent is absent from the  *)
(* record's DOMAIN.  A raised exception is a record with its class, its    *)
(* message, its status_code and its details.  Time is in whole seconds.    *)
(***************************************************************************)
EXTENDS Integers, Sequences, FiniteSets, TLC

VARIABLES
  pc,              \* "idle", "polling", "sleeping" or "done"
  op,              \* the operation of the current request
  req,             \* its arguments
  probe_env,       \* what the container probe met during this request
  upstream,        \* the last answer of the upstream provider
  validation,      \* what validate_video returned
  out,             \* what left the service client: a value or an exception
  http,            \* the response of the endpoint
  requests,        \* requests sent to the upstream provider by this request
  temp_file,       \* the temporary file of this request's probe: "none", "removed", "exists"
  now,             \* the event loop's clock
  start_time,      \* wait_for_completion: start_time
  status_response, \* wait_for_completion: status_response
  polls,           \* wait_for_completion: get_job_status calls made
  sleeps,          \* wait_for_completion: sleeps completed
  first_terminal,  \* index of the first poll answered completed or failed
  rate_limiter,    \* the process-wide RateLimiter of app/core/security.py
  tasks            \* the requests in flight on one event loop, each with its own locals

requestVars == <<pc, op, req, probe_env, upstream, validation, out, http, requests, temp_file,
                 now, start_time, status_response, polls, sleeps, first_terminal>>

vars == <<requestVars, rate_limiter, tasks>>

----------------------------------------------------------------------------
(* Python values *)

None == << >>

Some(v) == <<v>>

EmptyDict == << >>

Contains(message, text) == text = "" \/ \E i \in 1..Len(message) : message[i] = text

----------------------------------------------------------------------------
(* Settings, app/core/config.py *)

MAX_FILE_SIZE == 104857600

ALLOWED_VIDEO_EXTENSIONS == <<"mp4", "avi", "mov", "mkv", "webm">>

MAX_VIDEO_RESOLUTION == <<4096, 4096>>

----------------------------------------------------------------------------
(* Exceptions, app/utils/exceptions.py, and the classes of the libraries   *)
(* that the except clauses name.                                           *)

HTTP_400_BAD_REQUEST == 400

HTTP_500_INTERNAL_SERVER_ERROR == 500

ExceptionParent ==
  [ VideoValidationException |-> "VideoProcessingException",
    FileUploadException      |-> "VideoProcessingException",
    ExternalAPIException     |-> "VideoProcessingException",
    PicadabraAPIException    |-> "ExternalAPIException",
    FalAPIException          |-> "ExternalAPIException",
    VideoProcessingException |-> "Exception",
    TimeoutException         |-> "RequestError",
    RequestError             |-> "Exception",
    HTTPException            |-> "Exception",
    ValidationError          |-> "Exception",
    JSONDecodeError          |-> "Exception",
    TypeError                |-> "Exception",
    AttributeError           |-> "Exception",
    ValueError               |-> "Exception",
    BinasciiError            |-> "ValueError",
    OSError                  |-> "Exception",
    Exception                |-> "BaseException" ]

RECURSIVE IsInstance(_, _)
(* isinstance(e, class): class is the class of e or one of its ancestors. *)
IsInstance(cls, handler) ==
  IF cls = handler THEN TRUE
  ELSE IF cls \in DOMAIN ExceptionParent THEN IsInstance(ExceptionParent[cls], handler)
  ELSE FALSE

(* VideoProcessingException.__init__: status_code defaults to 400 and      *)
(* details to {}.                                                          *)
VideoProcessingException(cls, message, status_code, details) ==
  [ cls |-> cls, message |-> message, status_code |-> status_code, details |-> details ]

(* An exception of a library class: str(e) is its message. *)
LibraryError(cls, message) == [ cls |-> cls, message |-> message ]

NoExc == [ cls |-> "none" ]

Raised(r) == r.exc.cls # "none"

----------------------------------------------------------------------------
(* Base64 text.  The text is the sequence of the pieces that split(",")    *)
(* yields; a piece is `chars` characters of the base64 alphabet followed   *)
(* by `pads` '=' characters, and is ASCII or not.                          *)

(* base64.b64decode, validate=False: a non-ASCII str is a ValueError;      *)
(* every four alphabet characters give three bytes; a tail of two needs    *)
(* two pads and gives one byte, a tail of three needs one pad and gives    *)
(* two bytes, a tail of one is an error.  The bytes are modelled by their  *)
(* count.                                                                  *)
b64decode(piece) ==
  LET full == piece.chars \div 4
      tail == piece.chars % 4
  IN  IF ~piece.ascii
        THEN [ exc |-> LibraryError("ValueError", <<"string argument should contain only ASCII characters">>) ]
      ELSE IF tail = 0
        THEN [ exc |-> NoExc, len |-> 3 * full ]
      ELSE IF tail = 1
        THEN [ exc |-> LibraryError("BinasciiError", <<"Invalid base64-encoded string">>) ]
      ELSE IF tail + piece.pads >= 4
        THEN [ exc |-> NoExc, len |-> 3 * full + (tail - 1) ]
      ELSE [ exc |-> LibraryError("BinasciiError", <<"Incorrect padding">>) ]

RECURSIVE text_len(_)
(* len(base64_data): the characters of the pieces and the commas between   *)
(* them                                                                    *)
text_len(base64_data) ==
  IF Len(base64_data) = 0 THEN 0
  ELSE base64_data[1].chars + base64_data[1].pads
         + (IF Len(base64_data) > 1 THEN 1 ELSE 0) + text_len(Tail(base64_data))

(* VideoValidator.decode_base64_video *)
decode_base64_video(base64_data) ==
  LET payload == IF Len(base64_data) > 1 THEN base64_data[2] ELSE base64_data[1]
      r == b64decode(payload)
  IN  IF Raised(r)
        THEN [ exc |-> VideoProcessingException("VideoValidationException",
                          <<"Invalid base64 video data">>, HTTP_400_BAD_REQUEST, EmptyDict) ]
        ELSE [ exc |-> NoExc, len |-> r.len ]


(* The size test with >= in place of > *)
validate_file_size_m(file_size) ==
  IF file_size >= MAX_FILE_SIZE
    THEN [ exc |-> VideoProcessingException("VideoValidationException",
                      <<"File size (", ToString(file_size),
                        " bytes) exceeds maximum allowed size (", ToString(MAX_FILE_SIZE), " bytes)">>,
                      HTTP_400_BAD_REQUEST, EmptyDict) ]
    ELSE [ exc |-> NoExc ]

(* VideoValidator.validate_file_size *)
validate_file_size(file_size) ==
  IF file_size > MAX_FILE_SIZE
    THEN [ exc |-> VideoProcessingException("VideoValidationException",
                      <<"File size (", ToString(file_size),
                        " bytes) exceeds maximum allowed size (", ToString(MAX_FILE_SIZE), " bytes)">>,
                      HTTP_400_BAD_REQUEST, EmptyDict) ]
    ELSE [ exc |-> NoExc ]

(* chr((fourcc >> 8 * i) & 0xFF) for i in range(4), as character codes *)
format_code_of(fourcc) ==
  [ i \in 1..4 |-> (fourcc \div (256 ^ (i - 1))) % 256 ]

(* The inner try of get_video_info: open the container, read its          *)
(* properties.                                                             *)
get_video_info_inner(probe) ==
  IF ~probe.opened
    THEN [ exc |-> VideoProcessingException("VideoValidationException",
                      <<"Cannot open video file">>, HTTP_400_BAD_REQUEST, EmptyDict) ]
  ELSE IF ~probe.props_ok
    THEN [ exc |-> LibraryError("ValueError", <<"cannot convert float NaN to integer">>) ]
  ELSE [ exc |-> NoExc,
         width |-> probe.width,
         height |-> probe.height,
         duration |-> IF probe.fps > 0 THEN probe.frame_count \div probe.fps ELSE 0,
         format_code |-> format_code_of(probe.fourcc) ]

(* The body of get_video_info's outer try.  NamedTemporaryFile(delete=     *)
(* False) creates the file; temp_path is bound only after the with block,  *)
(* so a failing write leaves the with block before the inner try and its   *)
(* finally (os.unlink) are entered.  temp_exists: the file is still on     *)
(* disk when the call ends.                                                *)
get_video_info_try(video_len, probe) ==
  IF ~probe.write_ok
    THEN [ exc |-> LibraryError("OSError", <<"No space left on device">>), temp_exists |-> TRUE ]
    ELSE LET r == get_video_info_inner(probe)
         IN  [ k \in DOMAIN r \cup {"temp_exists"} |->
                 IF k = "temp_exists" THEN FALSE ELSE r[k] ]

(* VideoValidator.get_video_info: except Exception re-raises everything as *)
(* VideoValidationException("Cannot analyze video: ...").                  *)
get_video_info(video_len, probe) ==
  LET r == get_video_info_try(video_len, probe)
  IN  IF Raised(r) /\ IsInstance(r.exc.cls, "Exception")
        THEN [ exc |-> VideoProcessingException("VideoValidationException",
                          <<"Cannot analyze video: ">> \o r.exc.message,
                          HTTP_400_BAD_REQUEST, EmptyDict),
               temp_exists |-> r.temp_exists ]
        ELSE r

(* VideoValidator.validate_video_resolution *)
validate_video_resolution(width, height) ==
  LET max_width == MAX_VIDEO_RESOLUTION[1]
      max_height == MAX_VIDEO_RESOLUTION[2]
  IN  IF width > max_width \/ height > max_height
        THEN [ exc |-> VideoProcessingException("VideoValidationException",
                          <<"Video resolution (", ToString(width), "x", ToString(height),
                            ") exceeds maximum allowed resolution (",
                            ToString(max_width), "x", ToString(max_height), ")">>,
                          HTTP_400_BAD_REQUEST, EmptyDict) ]
        ELSE [ exc |-> NoExc ]

(* str.lower() on the strings the model draws *)
lower(s) ==
  CASE s = "MP4" -> "mp4"
    [] s = "QuickTime" -> "quicktime"
    [] s = "COMPLETED" -> "completed"
    [] s = "FAILED" -> "failed"
    [] s = "IN_PROGRESS" -> "in_progress"
    [] s = "IN_QUEUE" -> "in_queue"
    [] OTHER -> s

(* quicktime not mapped to mov *)
format_ext_of_m(mime_type) == lower(mime_type[2])

(* mime_type.split("/")[1].lower() with quicktime mapped to mov.  A MIME   *)
(* type is the sequence of the pieces that split("/") yields.              *)
format_ext_of(mime_type) ==
  LET format_ext == lower(mime_type[2])
  IN  IF format_ext = "quicktime" THEN "mov" ELSE format_ext

RECURSIVE join(_, _)
(* sep.join(items), as fragments *)
join(sep, items) ==
  IF Len(items) = 0 THEN << >>
  ELSE IF Len(items) = 1 THEN <<items[1]>>
  ELSE <<items[1], sep>> \o join(sep, Tail(items))

InList(x, items) == \E i \in 1..Len(items) : items[i] = x

(* VideoValidator.validate_video_format; mime_type None makes the `in`     *)
(* test a TypeError.                                                       *)
validate_video_format(mime_type, format_code) ==
  IF mime_type = None
    THEN [ exc |-> LibraryError("TypeError", <<"argument of type 'NoneType' is not iterable">>) ]
  ELSE IF Len(mime_type) > 1
    THEN LET format_ext == format_ext_of(mime_type)
         IN  IF ~InList(format_ext, ALLOWED_VIDEO_EXTENSIONS)
               THEN [ exc |-> VideoProcessingException("VideoValidationException",
                                 <<"Video format '", format_ext, "' is not supported. ",
                                   "Allowed formats: ">> \o join(", ", ALLOWED_VIDEO_EXTENSIONS),
                                 HTTP_400_BAD_REQUEST, EmptyDict) ]
               ELSE [ exc |-> NoExc ]
  ELSE [ exc |-> NoExc ]


(* The message put in front of the errors so far *)
append_error_m(errors, r) ==
  IF Raised(r) /\ IsInstance(r.exc.cls, "VideoValidationException")
    THEN <<r.exc.message>> \o errors
    ELSE errors

(* except VideoValidationException as e: errors.append(str(e)) *)
append_error(errors, r) ==
  IF Raised(r) /\ IsInstance(r.exc.cls, "VideoValidationException")
    THEN Append(errors, r.exc.message)
    ELSE errors

(* An exception that the inner handlers of validate_video let through *)
Escapes(r) == Raised(r) /\ ~IsInstance(r.exc.cls, "VideoValidationException")

(* A comparison that is off by one *)
is_valid_of_m(errors) == Len(errors) < 2

(* is_valid=len(errors) == 0 *)
is_valid_of(errors) == Len(errors) = 0

(* VideoValidationResult(...) of the normal path *)
validation_result(errors, info, file_size) ==
  [ is_valid |-> is_valid_of(errors),
    width    |-> IF Raised(info) THEN None ELSE Some(info.width),
    height   |-> IF Raised(info) THEN None ELSE Some(info.height),
    duration |-> IF Raised(info) THEN None ELSE Some(info.duration),
    format   |-> IF Raised(info) THEN None ELSE Some(info.format_code),
    size     |-> Some(file_size),
    errors   |-> errors ]

(* The handler without its errors.append *)
validate_video_except_m(exc, errors) ==
  IF IsInstance(exc.cls, "Exception")
    THEN [ exc |-> NoExc,
           value |-> [ is_valid |-> FALSE, width |-> None, height |-> None,
                       duration |-> None, format |-> None, size |-> None,
                       errors |-> errors ] ]
    ELSE [ exc |-> exc ]

(* The outer handler of validate_video: except Exception returns the       *)
(* errors so far plus a synthesized message; every other field keeps its   *)
(* schema default.  An exception it does not catch leaves validate_video.  *)
validate_video_except(exc, errors) ==
  IF IsInstance(exc.cls, "Exception")
    THEN [ exc |-> NoExc,
           value |-> [ is_valid |-> FALSE, width |-> None, height |-> None,
                       duration |-> None, format |-> None, size |-> None,
                       errors |-> Append(errors, <<"Validation failed: ">> \o exc.message) ] ]
    ELSE [ exc |-> exc ]

(* A probe failure that replaces the errors found so far *)
probe_failed_m(errors, info, file_size) ==
  IF Escapes(info)
    THEN validate_video_except(info.exc, errors)
    ELSE [ exc |-> NoExc,
           value |-> validation_result(append_error(<< >>, info), info, file_size) ]

(* validate_video when get_video_info raised: except                       *)
(* VideoValidationException appends its message to the errors so far.      *)
probe_failed(errors, info, file_size) ==
  IF Escapes(info)
    THEN validate_video_except(info.exc, errors)
    ELSE [ exc |-> NoExc,
           value |-> validation_result(append_error(errors, info), info, file_size) ]

(* The format check skipped once the resolution check failed *)
probe_succeeded_m(errors, info, mime_type, file_size) ==
  LET res     == validate_video_resolution(info.width, info.height)
      errors2 == append_error(errors, res)
      fmt     == IF Raised(res) THEN [ exc |-> NoExc ]
                 ELSE validate_video_format(mime_type, info.format_code)
      errors3 == append_error(errors2, fmt)
  IN  IF Escapes(res) THEN validate_video_except(res.exc, errors)
      ELSE IF Escapes(fmt) THEN validate_video_except(fmt.exc, errors2)
      ELSE [ exc |-> NoExc, value |-> validation_result(errors3, info, file_size) ]

(* validate_video when get_video_info returned: the resolution check and   *)
(* the format check, each in its own try.                                  *)
probe_succeeded(errors, info, mime_type, file_size) ==
  LET res     == validate_video_resolution(info.width, info.height)
      errors2 == append_error(errors, res)
      fmt     == validate_video_format(mime_type, info.format_code)
      errors3 == append_error(errors2, fmt)
  IN  IF Escapes(res) THEN validate_video_except(res.exc, errors)
      ELSE IF Escapes(fmt) THEN validate_video_except(fmt.exc, errors2)
      ELSE [ exc |-> NoExc, value |-> validation_result(errors3, info, file_size) ]

(* The checks of validate_video that follow a successful decode *)
validate_video_checks(file_size, mime_type, probe) ==
  LET errors1 == append_error(<< >>, validate_file_size(file_size))
      info    == get_video_info(file_size, probe)
  IN  IF Raised(info)
        THEN probe_failed(errors1, info, file_size)
        ELSE probe_succeeded(errors1, info, mime_type, file_size)

(* r extended with the record of the probe call: whether get_video_info    *)
(* ran, and whether its temporary file outlived it.                        *)
WithProbeTrace(r, probed, temp_exists) ==
  [ k \in DOMAIN r \cup {"probed", "temp_exists"} |->
      IF k = "probed" THEN probed
      ELSE IF k = "temp_exists" THEN temp_exists
      ELSE r[k] ]

(* VideoValidator.validate_video *)
validate_video(base64_data, mime_type, probe) ==
  LET decoded == decode_base64_video(base64_data)
  IN  IF Raised(decoded)
        THEN WithProbeTrace(validate_video_except(decoded.exc, << >>), FALSE, FALSE)
        ELSE WithProbeTrace(validate_video_checks(decoded.len, mime_type, probe),
                            TRUE, get_video_info(decoded.len, probe).temp_exists)

----------------------------------------------------------------------------
(* Upload client, app/services/picadabra_service.py.  An answer of the     *)
(* provider is a timeout, a network error, or a response with a status     *)
(* code and a body; a URL is the sequence of the pieces that split("/")    *)
(* yields, each piece the sequence of the pieces that split(".") yields.   *)

UPLOAD_TIMEOUT == 60

Truthy(url) == url # << <<"">> >>

(* The test for "/uploads/" left out *)
extract_file_id_m(url) == Some(url[Len(url)][1])

(* PicadabraService._extract_file_id *)
extract_file_id(url) ==
  IF \E i \in 2..(Len(url) - 1) : url[i] = <<"uploads">>
    THEN Some(url[Len(url)][1])
    ELSE None

(* The PicadabraUploadResponse schema: success is a required bool,         *)
(* url and message are optional.                                           *)
PicadabraUploadResponse(response_data) ==
  IF response_data.success = None
    THEN [ exc |-> LibraryError("ValidationError", <<"1 validation error for PicadabraUploadResponse">>) ]
    ELSE [ exc |-> NoExc, success |-> response_data.success[1],
           url |-> response_data.url, message |-> response_data.message ]

(* The success flag of the provider ignored *)
upload_ok_m(picadabra_response) ==
  picadabra_response.url # None /\ Truthy(picadabra_response.url[1])

(* if picadabra_response.success and picadabra_response.url *)
upload_ok(picadabra_response) ==
  /\ picadabra_response.success
  /\ picadabra_response.url # None
  /\ Truthy(picadabra_response.url[1])

(* The try body of upload_video *)
upload_video_try(upload_request, answer) ==
  IF answer.kind = "timeout"
    THEN [ exc |-> LibraryError("TimeoutException", <<"timed out">>) ]
  ELSE IF answer.kind = "network_error"
    THEN [ exc |-> LibraryError("RequestError", <<"connection refused">>) ]
  ELSE IF answer.status_code = 200
    THEN IF ~answer.json_ok
           THEN [ exc |-> LibraryError("JSONDecodeError", <<"Expecting value">>) ]
           ELSE LET picadabra_response == PicadabraUploadResponse(answer.body)
                IN  IF Raised(picadabra_response) THEN picadabra_response
                    ELSE IF upload_ok(picadabra_response)
                      THEN [ exc |-> NoExc,
                             value |-> [ success |-> TRUE,
                                         url |-> picadabra_response.url[1],
                                         message |-> <<"Video uploaded successfully">>,
                                         file_id |-> extract_file_id(picadabra_response.url[1]),
                                         file_size |-> Some(text_len(upload_request.base64Data)) ] ]
                      ELSE LET error_msg ==
                                 IF picadabra_response.message # None
                                      /\ picadabra_response.message[1] # ""
                                   THEN picadabra_response.message[1]
                                   ELSE "Upload failed"
                           IN  [ exc |-> VideoProcessingException("PicadabraAPIException",
                                            <<"Upload failed: ", error_msg>>,
                                            HTTP_400_BAD_REQUEST,
                                            [ picadabra_response |-> answer.body ]) ]
  ELSE [ exc |-> VideoProcessingException("PicadabraAPIException",
                    <<"Upload failed with status ", ToString(answer.status_code)>>,
                    answer.status_code,
                    [ error_text |-> answer.text ]) ]

(* The except clauses of upload_video, in order *)
upload_video_except(exc) ==
  IF IsInstance(exc.cls, "TimeoutException")
    THEN VideoProcessingException("PicadabraAPIException", <<"Upload request timed out">>,
                                  HTTP_400_BAD_REQUEST, [ timeout |-> UPLOAD_TIMEOUT ])
  ELSE IF IsInstance(exc.cls, "RequestError")
    THEN VideoProcessingException("PicadabraAPIException",
                                  <<"Upload request failed: ">> \o exc.message,
                                  HTTP_400_BAD_REQUEST, [ request_error |-> exc.message ])
  ELSE IF IsInstance(exc.cls, "Exception")
    THEN VideoProcessingException("PicadabraAPIException",
                                  <<"Upload failed: ">> \o exc.message,
                                  HTTP_400_BAD_REQUEST, [ error |-> exc.message ])
  ELSE exc

(* PicadabraService.upload_video *)
upload_video(upload_request, answer) ==
  LET r == upload_video_try(upload_request, answer)
  IN  IF Raised(r) THEN [ exc |-> upload_video_except(r.exc) ] ELSE r

----------------------------------------------------------------------------
(* Reframe job client, app/services/fal_service.py.  progress is in        *)
(* hundredths (50 is 0.5).                                                 *)

SUBMIT_TIMEOUT == 120

STATUS_TIMEOUT == 30

Get(data, key, default) == IF key \in DOMAIN data THEN data[key] ELSE default

(* The try body of submit_reframe_job *)
submit_reframe_job_try(reframe_request, answer) ==
  IF answer.kind = "timeout"
    THEN [ exc |-> LibraryError("TimeoutException", <<"timed out">>) ]
  ELSE IF answer.kind = "network_error"
    THEN [ exc |-> LibraryError("RequestError", <<"connection refused">>) ]
  ELSE IF answer.status_code \in {200, 201, 202}
    THEN IF ~answer.json_ok
           THEN [ exc |-> LibraryError("JSONDecodeError", <<"Expecting value">>) ]
         ELSE IF "request_id" \in DOMAIN answer.body
           THEN [ exc |-> NoExc,
                  value |-> [ success |-> TRUE,
                              message |-> <<"Reframe job submitted successfully">>,
                              job_id |-> answer.body.request_id,
                              status |-> Some("submitted"),
                              result_url |-> None,
                              error_details |-> None ] ]
         ELSE IF "video_url" \in DOMAIN answer.body
           THEN [ exc |-> NoExc,
                  value |-> [ success |-> TRUE,
                              message |-> <<"Video reframed successfully">>,
                              job_id |-> None,
                              status |-> Some("completed"),
                              result_url |-> answer.body.video_url,
                              error_details |-> None ] ]
         ELSE [ exc |-> NoExc,
                value |-> [ success |-> FALSE,
                            message |-> <<"Unexpected API response format">>,
                            job_id |-> None,
                            status |-> None,
                            result_url |-> None,
                            error_details |-> Some([ fal_response |-> answer.body ]) ] ]
  ELSE [ exc |-> VideoProcessingException("FalAPIException",
                    <<"Reframe job submission failed with status ", ToString(answer.status_code)>>,
                    answer.status_code,
                    [ error_text |-> answer.text,
                      error_data |-> IF answer.json_ok THEN answer.body ELSE EmptyDict ]) ]

(* The except clauses of submit_reframe_job, in order *)
submit_reframe_job_except(exc) ==
  IF IsInstance(exc.cls, "TimeoutException")
    THEN VideoProcessingException("FalAPIException", <<"Reframe job submission timed out">>,
                                  HTTP_400_BAD_REQUEST, [ timeout |-> SUBMIT_TIMEOUT ])
  ELSE IF IsInstance(exc.cls, "RequestError")
    THEN VideoProcessingException("FalAPIException",
                                  <<"Reframe job submission failed: ">> \o exc.message,
                                  HTTP_400_BAD_REQUEST, [ request_error |-> exc.message ])
  ELSE IF IsInstance(exc.cls, "Exception")
    THEN VideoProcessingException("FalAPIException",
                                  <<"Reframe job submission failed: ">> \o exc.message,
                                  HTTP_400_BAD_REQUEST, [ error |-> exc.message ])
  ELSE exc

(* A response of neither shape raised instead of returned *)
submit_reframe_job_m(reframe_request, answer) ==
  LET r == submit_reframe_job_try(reframe_request, answer)
  IN  IF Raised(r) THEN [ exc |-> submit_reframe_job_except(r.exc) ]
      ELSE IF ~r.value.success
        THEN [ exc |-> VideoProcessingException("FalAPIException", r.value.message,
                          HTTP_400_BAD_REQUEST, r.value.error_details[1]) ]
      ELSE r

(* FalService.submit_reframe_job *)
submit_reframe_job(reframe_request, answer) ==
  LET r == submit_reframe_job_try(reframe_request, answer)
  IN  IF Raised(r) THEN [ exc |-> submit_reframe_job_except(r.exc) ] ELSE r

(* The JobStatusResponse schema: progress is None or within [0, 1] *)
JobStatusResponse(job_id, status, progress, result_url, error_message) ==
  IF progress # None /\ (progress[1] < 0 \/ progress[1] > 100)
    THEN [ exc |-> LibraryError("ValidationError", <<"1 validation error for JobStatusResponse">>) ]
    ELSE [ exc |-> NoExc,
           value |-> [ job_id |-> job_id, status |-> status, progress |-> progress,
                       result_url |-> result_url, error_message |-> error_message ] ]

(* The 200 branch of get_job_status *)
job_status_of(job_id, data) ==
  LET status == Get(data, "status", Some("unknown"))
      result_url ==
        IF status = Some("COMPLETED") /\ "video_url" \in DOMAIN data THEN data.video_url ELSE None
      error_message ==
        IF ~(status = Some("COMPLETED") /\ "video_url" \in DOMAIN data) /\ status = Some("FAILED")
          THEN Get(data, "error", Some("Job failed without error message"))
          ELSE None
      progress ==
        IF ~(status = Some("COMPLETED") /\ "video_url" \in DOMAIN data) /\ status # Some("FAILED")
             /\ status = Some("IN_PROGRESS")
          THEN Get(data, "progress", Some(50))
          ELSE None
  IN  IF status = None
        THEN [ exc |-> LibraryError("AttributeError", <<"'NoneType' object has no attribute 'lower'">>) ]
        ELSE JobStatusResponse(job_id, lower(status[1]), progress, result_url, error_message)

(* The try body of get_job_status *)
get_job_status_try(job_id, answer) ==
  IF answer.kind = "timeout"
    THEN [ exc |-> LibraryError("TimeoutException", <<"timed out">>) ]
  ELSE IF answer.kind = "network_error"
    THEN [ exc |-> LibraryError("RequestError", <<"connection refused">>) ]
  ELSE IF answer.status_code = 200
    THEN IF ~answer.json_ok
           THEN [ exc |-> LibraryError("JSONDecodeError", <<"Expecting value">>) ]
           ELSE job_status_of(job_id, answer.body)
  ELSE IF answer.status_code = 404
    THEN [ exc |-> VideoProcessingException("FalAPIException",
                      <<"Job ", job_id, " not found">>, 404, EmptyDict) ]
  ELSE [ exc |-> VideoProcessingException("FalAPIException",
                    <<"Status check failed with status ", ToString(answer.status_code)>>,
                    answer.status_code,
                    [ error_text |-> answer.text ]) ]

(* The except clauses of get_job_status, in order *)
get_job_status_except(job_id, exc) ==
  IF IsInstance(exc.cls, "TimeoutException")
    THEN VideoProcessingException("FalAPIException", <<"Status check timed out">>,
                                  HTTP_400_BAD_REQUEST,
                                  [ job_id |-> job_id, timeout |-> STATUS_TIMEOUT ])
  ELSE IF IsInstance(exc.cls, "RequestError")
    THEN VideoProcessingException("FalAPIException",
                                  <<"Status check failed: ">> \o exc.message,
                                  HTTP_400_BAD_REQUEST, [ request_error |-> exc.message ])
  ELSE IF IsInstance(exc.cls, "Exception")
    THEN VideoProcessingException("FalAPIException",
                                  <<"Status check failed: ">> \o exc.message,
                                  HTTP_400_BAD_REQUEST, [ error |-> exc.message ])
  ELSE exc

(* FalService.get_job_status *)
get_job_status(job_id, answer) ==
  LET r == get_job_status_try(job_id, answer)
  IN  IF Raised(r) THEN [ exc |-> get_job_status_except(job_id, r.exc) ] ELSE r


(* "failed" left out of the list *)
is_terminal_m(status) == status \in {"completed"}

(* status_response.status in ["completed", "failed"] *)
is_terminal(status) == status \in {"completed", "failed"}

(* A failed get_job_status answered by another round of the loop *)
wait_iteration_m(job_id, max_wait_time, begin, clock, r) ==
  IF Raised(r) THEN [ next |-> "sleep" ]
  ELSE IF is_terminal(r.value.status) THEN [ next |-> "return", value |-> r.value ]
  ELSE LET elapsed_time == clock - begin
       IN  IF elapsed_time > max_wait_time
             THEN [ next |-> "raise",
                    exc |-> VideoProcessingException("FalAPIException",
                               <<"Job ", job_id, " timed out">>, HTTP_400_BAD_REQUEST,
                               [ max_wait_time |-> max_wait_time,
                                 elapsed_time |-> elapsed_time ]) ]
             ELSE [ next |-> "sleep", value |-> r.value ]

(* The deadline test with >= in place of > *)
wait_iteration_m2(job_id, max_wait_time, begin, clock, r) ==
  IF Raised(r) THEN [ next |-> "raise", exc |-> r.exc ]
  ELSE IF is_terminal(r.value.status) THEN [ next |-> "return", value |-> r.value ]
  ELSE LET elapsed_time == clock - begin
       IN  IF elapsed_time >= max_wait_time
             THEN [ next |-> "raise",
                    exc |-> VideoProcessingException("FalAPIException",
                               <<"Job ", job_id, " timed out">>, HTTP_400_BAD_REQUEST,
                               [ max_wait_time |-> max_wait_time,
                                 elapsed_time |-> elapsed_time ]) ]
             ELSE [ next |-> "sleep", value |-> r.value ]

(* The deadline test made before the terminal test *)
wait_iteration_m3(job_id, max_wait_time, begin, clock, r) ==
  IF Raised(r) THEN [ next |-> "raise", exc |-> r.exc ]
  ELSE LET elapsed_time == clock - begin
       IN  IF elapsed_time > max_wait_time
             THEN [ next |-> "raise",
                    exc |-> VideoProcessingException("FalAPIException",
                               <<"Job ", job_id, " timed out">>, HTTP_400_BAD_REQUEST,
                               [ max_wait_time |-> max_wait_time,
                                 elapsed_time |-> elapsed_time ]) ]
           ELSE IF is_terminal(r.value.status) THEN [ next |-> "return", value |-> r.value ]
           ELSE [ next |-> "sleep", value |-> r.value ]

(* One iteration of wait_for_completion after get_job_status returned r at *)
(* clock `clock`: return, raise, or go to sleep.                           *)
wait_iteration(job_id, max_wait_time, begin, clock, r) ==
  IF Raised(r) THEN [ next |-> "raise", exc |-> r.exc ]
  ELSE IF is_terminal(r.value.status) THEN [ next |-> "return", value |-> r.value ]
  ELSE LET elapsed_time == clock - begin
       IN  IF elapsed_time > max_wait_time
             THEN [ next |-> "raise",
                    exc |-> VideoProcessingException("FalAPIException",
                               <<"Job ", job_id, " timed out">>, HTTP_400_BAD_REQUEST,
                               [ max_wait_time |-> max_wait_time,
                                 elapsed_time |-> elapsed_time ]) ]
             ELSE [ next |-> "sleep", value |-> r.value ]

----------------------------------------------------------------------------
(* Endpoints, app/api/v1/endpoints.  A response is a status code with a    *)
(* body (the return value) or a detail (an HTTPException).                 *)

HTTPException(status_code, detail) ==
  [ cls |-> "HTTPException", message |-> << >>, status_code |-> status_code, detail |-> detail ]

Response(value) == [ status_code |-> 200, body |-> value ]

ErrorResponse(exc) == [ status_code |-> exc.status_code, detail |-> exc.detail ]

(* The except clauses shared by reframe_video, get_reframe_status and      *)
(* wait_for_reframe_completion; they differ in the two texts.              *)
reframe_except(exc, error, message) ==
  IF IsInstance(exc.cls, "FalAPIException")
    THEN HTTPException(exc.status_code,
                       [ error |-> error, message |-> exc.message, details |-> exc.details ])
  ELSE IF IsInstance(exc.cls, "Exception")
    THEN HTTPException(HTTP_500_INTERNAL_SERVER_ERROR,
                       [ error |-> "Internal server error", message |-> message ])
  ELSE exc

(* reframe_video *)
reframe_video(r) ==
  IF Raised(r)
    THEN ErrorResponse(reframe_except(r.exc, "Reframe job submission failed",
           <<"An unexpected error occurred during reframe submission">>))
    ELSE Response(r.value)

(* get_reframe_status *)
get_reframe_status(r) ==
  IF Raised(r)
    THEN ErrorResponse(reframe_except(r.exc, "Status check failed",
           <<"An unexpected error occurred during status check">>))
    ELSE Response(r.value)

(* wait_for_reframe_completion *)
wait_for_reframe_completion(r) ==
  IF Raised(r)
    THEN ErrorResponse(reframe_except(r.exc, "Job wait failed",
           <<"An unexpected error occurred while waiting for job completion">>))
    ELSE Response(r.value)

(* The except clauses of the upload endpoint, in order *)
upload_except(exc) ==
  IF IsInstance(exc.cls, "VideoValidationException")
    THEN HTTPException(exc.status_code,
                       [ error |-> "Video validation failed", message |-> exc.message,
                         details |-> exc.details ])
  ELSE IF IsInstance(exc.cls, "PicadabraAPIException")
    THEN HTTPException(exc.status_code,
                       [ error |-> "Upload failed", message |-> exc.message,
                         details |-> exc.details ])
  ELSE IF IsInstance(exc.cls, "Exception")
    THEN HTTPException(HTTP_500_INTERNAL_SERVER_ERROR,
                       [ error |-> "Internal server error",
                         message |-> <<"An unexpected error occurred during upload">> ])
  ELSE exc

(* The upload sent before the validity test *)
upload_endpoint_m(upload_request, probe, answer) ==
  LET v == validate_video(upload_request.base64Data, upload_request.mimeType, probe)
  IN  IF Raised(v)
        THEN [ validation |-> v, uploaded |-> TRUE, out |-> [ exc |-> NoExc ],
               http |-> ErrorResponse(upload_except(v.exc)) ]
      ELSE IF ~v.value.is_valid
        THEN [ validation |-> v, uploaded |-> TRUE, out |-> [ exc |-> NoExc ],
               http |-> ErrorResponse(upload_except(
                 HTTPException(HTTP_400_BAD_REQUEST,
                   [ error |-> "Video validation failed",
                     message |-> <<"The uploaded video does not meet the requirements">> ]))) ]
      ELSE LET u == upload_video(upload_request, answer)
           IN  [ validation |-> v, uploaded |-> TRUE, out |-> u,
                 http |-> IF Raised(u) THEN ErrorResponse(upload_except(u.exc))
                          ELSE Response(u.value) ]

(* The upload endpoint upload_video: validate, then upload.  The           *)
(* HTTPException for an invalid video is raised inside the try.            *)
upload_endpoint(upload_request, probe, answer) ==
  LET v == validate_video(upload_request.base64Data, upload_request.mimeType, probe)
  IN  IF Raised(v)
        THEN [ validation |-> v, uploaded |-> FALSE, out |-> [ exc |-> NoExc ],
               http |-> ErrorResponse(upload_except(v.exc)) ]
      ELSE IF ~v.value.is_valid
        THEN [ validation |-> v, uploaded |-> FALSE, out |-> [ exc |-> NoExc ],
               http |-> ErrorResponse(upload_except(
                 HTTPException(HTTP_400_BAD_REQUEST,
                   [ error |-> "Video validation failed",
                     message |-> <<"The uploaded video does not meet the requirements">>,
                     validation_errors |-> v.value.errors,
                     video_info |-> [ width |-> v.value.width, height |-> v.value.height,
                                      duration |-> v.value.duration, format |-> v.value.format,
                                      size |-> v.value.size ] ]))) ]
      ELSE LET u == upload_video(upload_request, answer)
           IN  [ validation |-> v, uploaded |-> TRUE, out |-> u,
                 http |-> IF Raised(u) THEN ErrorResponse(upload_except(u.exc))
                          ELSE Response(u.value) ]


(* The validators of the VideoUploadRequest schema, app/models/schemas.py  *)
allowed_types ==
  << <<"video", "mp4">>, <<"video", "avi">>, <<"video", "mov">>,
     <<"video", "mkv">>, <<"video", "webm">>, <<"video", "quicktime">> >>

VideoUploadRequest_valid(upload_request) ==
  /\ InList(upload_request.mimeType, allowed_types)
  /\ text_len(upload_request.base64Data) >= 10

----------------------------------------------------------------------------
(* The in-memory rate limiter, app/core/security.py.  The list that        *)
(* _requests keeps for a client is read only through filters on the value  *)
(* of its entries and through len(), so it is modelled by the number of    *)
(* entries at each time: a function from times to positive counts.         *)

HTTP_429_TOO_MANY_REQUESTS == 429

max_requests_per_minute == 60

max_requests_per_hour == 1000

EmptyList == << >>

RECURSIVE len(_)
(* len(list): the entries at all times *)
len(list) ==
  IF DOMAIN list = {} THEN 0
  ELSE LET t == CHOOSE t \in DOMAIN list : TRUE
       IN  list[t] + len([ u \in DOMAIN list \ {t} |-> list[u] ])

(* [req_time for req_time in list if current_time - req_time < age] *)
younger_than(list, current_time, age) ==
  [ t \in { u \in DOMAIN list : current_time - u < age } |-> list[t] ]

(* list.append(current_time) *)
append_time(list, current_time) ==
  [ t \in DOMAIN list \cup {current_time} |->
      IF t \in DOMAIN list
        THEN list[t] + (IF t = current_time THEN 1 ELSE 0)
        ELSE 1 ]

(* self._requests[client_ip] = list *)
set_item(dict, key, value) ==
  [ k \in DOMAIN dict \cup {key} |-> IF k = key THEN value ELSE dict[k] ]

(* The per-minute test with > in place of >= *)
check_rate_limit_m(_requests, client_ip, current_time) ==
  LET list     == IF client_ip \in DOMAIN _requests THEN _requests[client_ip] ELSE EmptyList
      cleaned  == younger_than(list, current_time, 3600)
      recent_requests == younger_than(cleaned, current_time, 60)
  IN  IF len(cleaned) >= max_requests_per_hour
        THEN [ exc |-> HTTPException(HTTP_429_TOO_MANY_REQUESTS, "Hourly rate limit exceeded"),
               _requests |-> set_item(_requests, client_ip, cleaned) ]
      ELSE IF len(recent_requests) > max_requests_per_minute
        THEN [ exc |-> HTTPException(HTTP_429_TOO_MANY_REQUESTS, "Per-minute rate limit exceeded"),
               _requests |-> set_item(_requests, client_ip, cleaned) ]
      ELSE [ exc |-> NoExc,
             _requests |-> set_item(_requests, client_ip, append_time(cleaned, current_time)) ]

(* RateLimiter.check_rate_limit: the new self._requests and the exception  *)
(* raised, if any.  The method has no await, so it runs as one step.       *)
check_rate_limit(_requests, client_ip, current_time) ==
  LET list     == IF client_ip \in DOMAIN _requests THEN _requests[client_ip] ELSE EmptyList
      cleaned  == younger_than(list, current_time, 3600)
      recent_requests == younger_than(cleaned, current_time, 60)
  IN  IF len(cleaned) >= max_requests_per_hour
        THEN [ exc |-> HTTPException(HTTP_429_TOO_MANY_REQUESTS, "Hourly rate limit exceeded"),
               _requests |-> set_item(_requests, client_ip, cleaned) ]
      ELSE IF len(recent_requests) >= max_requests_per_minute
        THEN [ exc |-> HTTPException(HTTP_429_TOO_MANY_REQUESTS, "Per-minute rate limit exceeded"),
               _requests |-> set_item(_requests, client_ip, cleaned) ]
      ELSE [ exc |-> NoExc,
             _requests |-> set_item(_requests, client_ip, append_time(cleaned, current_time)) ]

(* check_client_rate_limit: the client of a request is its host, or        *)
(* "unknown" when the request has no client.                               *)
check_client_rate_limit(_requests, request, current_time) ==
  LET client_ip == IF request.client # None THEN request.client[1] ELSE "unknown"
  IN  check_rate_limit(_requests, client_ip, current_time)

(* The limiter object with self._requests, the wall clock, and the record  *)
(* of what it has done: the calls it accepted for each client, and its     *)
(* last call with self._requests as it was before it.                      *)
RateLimiter(_requests, time) ==
  [ _requests |-> _requests,
    time        |-> time,
    accepted    |-> _requests,
    steps       |-> 0,
    last        |-> [ client_ip |-> "none" ] ]

----------------------------------------------------------------------------
(* The inputs and the answers of the environment that the model draws *)

MaxPieces == 3

(* Four characters for each three bytes of MAX_FILE_SIZE - 1 bytes *)
BigChars == 4 * (MAX_FILE_SIZE \div 3)

(* Three bytes; a tail of one character; MAX_FILE_SIZE bytes; the same     *)
(* without its padding; MAX_FILE_SIZE + 1 bytes; a non-ASCII text          *)
Pieces ==
  { [ chars |-> 4, pads |-> 0, ascii |-> TRUE ],
    [ chars |-> 5, pads |-> 0, ascii |-> TRUE ],
    [ chars |-> BigChars + 2, pads |-> 2, ascii |-> TRUE ],
    [ chars |-> BigChars + 2, pads |-> 0, ascii |-> TRUE ],
    [ chars |-> BigChars + 3, pads |-> 1, ascii |-> TRUE ],
    [ chars |-> 4, pads |-> 0, ascii |-> FALSE ] }

Base64Texts == UNION { [ 1..n -> Pieces ] : n \in 1..MaxPieces }

MimeTypes ==
  { None, <<"mp4">>, <<"video", "mp4">>, <<"video", "MP4">>,
    <<"video", "quicktime">>, <<"video", "QuickTime">>, <<"video", "ogg">>, <<"ogg">> }

NoProbe == [ kind |-> "none" ]

Probes ==
  { [ kind |-> "probe", write_ok |-> w, opened |-> o, props_ok |-> p,
      width |-> 0, height |-> 0, fps |-> 0, frame_count |-> 0, fourcc |-> 0 ] :
      <<w, o, p>> \in { <<FALSE, FALSE, FALSE>>, <<TRUE, FALSE, FALSE>>, <<TRUE, TRUE, FALSE>> } }
  \cup
  { [ kind |-> "probe", write_ok |-> TRUE, opened |-> TRUE, props_ok |-> TRUE,
      width |-> w, height |-> h, fps |-> f, frame_count |-> 300, fourcc |-> 828601953 ] :
      <<w, h>> \in { <<1920, 1080>>, <<4096, 4096>>, <<4097, 1080>>, <<1920, 4097>>,
                     <<4097, 4097>> },
      f \in {0, 30} }
  \cup
  { [ kind |-> "probe", write_ok |-> TRUE, opened |-> TRUE, props_ok |-> TRUE,
      width |-> 1920, height |-> 1080, fps |-> 30, frame_count |-> 300, fourcc |-> 1145656920 ] }

UploadsUrl ==
  << <<"https:">>, <<"">>, <<"api-test", "picadabra", "ai">>, <<"uploads">>, <<"videos">>,
     <<"file_id", "mp4">> >>

OtherUrl == << <<"https:">>, <<"">>, <<"cdn", "example", "com">>, <<"v">>, <<"clip", "mp4">> >>

EmptyUrl == << <<"">> >>

(* A file name with two dots under /uploads/ *)
DottedUploadsUrl ==
  << <<"https:">>, <<"">>, <<"api-test", "picadabra", "ai">>, <<"uploads">>,
     <<"clip", "v2", "mp4">> >>

(* "uploads" as the last segment: the text has no "/uploads/" *)
TrailingUploadsUrl ==
  << <<"https:">>, <<"">>, <<"cdn", "example", "com">>, <<"uploads">> >>

NoAnswer == [ kind |-> "none" ]

Failures ==
  { [ kind |-> k, status_code |-> 0, json_ok |-> FALSE, body |-> EmptyDict, text |-> "" ] :
      k \in {"timeout", "network_error"} }

ErrorAnswers(codes) ==
  { [ kind |-> "response", status_code |-> c, json_ok |-> FALSE, body |-> EmptyDict,
      text |-> "upstream error" ] : c \in codes }

OkAnswers(codes, bodies) ==
  { [ kind |-> "response", status_code |-> c, json_ok |-> TRUE, body |-> b, text |-> "" ] :
      c \in codes, b \in bodies }
  \cup { [ kind |-> "response", status_code |-> c, json_ok |-> FALSE, body |-> EmptyDict,
           text |-> "<html>" ] : c \in codes }

UploadBodies ==
  [ success : { None, Some(TRUE), Some(FALSE) },
    url     : { None, Some(EmptyUrl), Some(UploadsUrl), Some(OtherUrl),
                Some(DottedUploadsUrl), Some(TrailingUploadsUrl) },
    message : { None, Some(""), Some("quota exceeded") } ]

UploadAnswers ==
  Failures \cup ErrorAnswers({201, 413, 502}) \cup OkAnswers({200}, UploadBodies)

SubmitBodies ==
  { [ k \in K |-> d[k] ] :
      K \in SUBSET {"request_id", "video_url"},
      d \in [ request_id : { None, Some("job-1") }, video_url : { Some(OtherUrl) } ] }

SubmitAnswers ==
  Failures \cup ErrorAnswers({404, 429, 500}) \cup OkAnswers({200, 202}, SubmitBodies)

StatusBodies ==
  { [ k \in K |-> d[k] ] :
      K \in SUBSET {"status", "video_url", "error", "progress"},
      d \in [ status    : { None, Some("COMPLETED"), Some("FAILED"), Some("IN_PROGRESS"),
                            Some("IN_QUEUE"), Some("completed") },
              video_url : { Some(OtherUrl) },
              error     : { None, Some("boom") },
              progress  : { Some(25), Some(150) } ] }

StatusAnswers ==
  Failures \cup ErrorAnswers({404, 500}) \cup OkAnswers({200}, StatusBodies)

JobIds == { "job-1" }

ReframeRequests ==
  { [ video_url |-> UploadsUrl, prompt |-> "make it vertical", aspect_ratio |-> "9:16" ] }

(* max_wait_time within [30, 600] and poll_interval within [5, 30], the    *)
(* bounds of the wait endpoint's query parameters                          *)
MaxWaitTimes == { 30, 45 }

PollIntervals == { 5, 30 }

(* How long a get_job_status call that is answered takes; one that times   *)
(* out takes STATUS_TIMEOUT.                                               *)
PollDurations == { 0, 1, 29 }

Duration(answer) == IF answer.kind = "timeout" THEN { STATUS_TIMEOUT } ELSE PollDurations

----------------------------------------------------------------------------
(* The state machine: one request at a time, from idle to done *)

NoReq == [ kind |-> "none" ]

NoOut == [ exc |-> NoExc ]

NoHttp == [ status_code |-> 0 ]

NoValidation == [ exc |-> NoExc ]

NoStatus == [ status |-> "none" ]

RequestInit ==
  /\ pc = "idle" /\ op = "none" /\ req = NoReq
  /\ probe_env = NoProbe /\ upstream = NoAnswer
  /\ validation = NoValidation /\ out = NoOut /\ http = NoHttp
  /\ requests = 0 /\ temp_file = "none"
  /\ now = 0 /\ start_time = 0 /\ status_response = NoStatus
  /\ polls = 0 /\ sleeps = 0 /\ first_terminal = 0

NoTasks == << >>

(* The state after construction: no request yet, rate_limiter =            *)
(* RateLimiter() with an empty _requests, nothing in flight.               *)
Init ==
  /\ RequestInit
  /\ rate_limiter = RateLimiter(EmptyDict, 0)
  /\ tasks = NoTasks

waitVars == <<now, start_time, status_response, polls, sleeps, first_terminal>>

(* The probe that a call with this text meets: none when the text does not *)
(* decode, for get_video_info does not run then.                           *)
ProbesFor(base64_data) ==
  IF Raised(decode_base64_video(base64_data)) THEN { NoProbe } ELSE Probes

(* The temporary file of the probe after validate_video returned v *)
temp_file_after(v) ==
  IF ~v.probed THEN "none" ELSE IF v.temp_exists THEN "exists" ELSE "removed"

(* A direct call of VideoValidator.validate_video *)
ValidateVideo ==
  /\ pc = "idle"
  /\ \E base64_data \in Base64Texts, mime_type \in MimeTypes :
       \E p \in ProbesFor(base64_data) :
         LET v == validate_video(base64_data, mime_type, p)
         IN  /\ temp_file' = temp_file_after(v)
             /\ req' = [ kind |-> "validate", base64_data |-> base64_data, mime_type |-> mime_type ]
             /\ probe_env' = p
             /\ validation' = v
  /\ op' = "validate" /\ pc' = "done"
  /\ UNCHANGED <<upstream, out, http, requests, waitVars>>
  /\ UNCHANGED <<rate_limiter, tasks>>

(* POST /upload *)
UploadVideo ==
  /\ pc = "idle"
  /\ \E base64_data \in Base64Texts, mime_type \in MimeTypes :
       LET upload_request == [ kind |-> "upload", mimeType |-> mime_type,
                               base64Data |-> base64_data, fileName |-> "a.mp4",
                               prefix |-> "uploads/videos" ]
       IN  /\ VideoUploadRequest_valid(upload_request)
           /\ \E p \in ProbesFor(base64_data) :
                \E answer \in ( IF validate_video(base64_data, mime_type, p).value.is_valid
                                  THEN UploadAnswers ELSE { NoAnswer } ) :
                  LET e == upload_endpoint(upload_request, p, answer)
                  IN  /\ temp_file' = temp_file_after(e.validation)
                      /\ req' = upload_request
                      /\ probe_env' = p
                      /\ upstream' = answer
                      /\ validation' = e.validation
                      /\ out' = e.out
                      /\ http' = e.http
                      /\ requests' = IF e.uploaded THEN 1 ELSE 0
  /\ op' = "upload" /\ pc' = "done"
  /\ UNCHANGED waitVars
  /\ UNCHANGED <<rate_limiter, tasks>>

(* POST /reframe *)
ReframeVideo ==
  /\ pc = "idle"
  /\ \E reframe_request \in ReframeRequests, answer \in SubmitAnswers :
       LET r == submit_reframe_job(reframe_request, answer)
       IN  /\ req' = [ kind |-> "reframe", reframe_request |-> reframe_request ]
           /\ upstream' = answer
           /\ out' = r
           /\ http' = reframe_video(r)
  /\ requests' = 1
  /\ op' = "reframe" /\ pc' = "done"
  /\ UNCHANGED <<probe_env, validation, temp_file, waitVars>>
  /\ UNCHANGED <<rate_limiter, tasks>>

(* GET /reframe/status/{job_id} *)
GetReframeStatus ==
  /\ pc = "idle"
  /\ \E job_id \in JobIds, answer \in StatusAnswers :
       LET r == get_job_status(job_id, answer)
       IN  /\ req' = [ kind |-> "status", job_id |-> job_id ]
           /\ upstream' = answer
           /\ out' = r
           /\ http' = get_reframe_status(r)
  /\ requests' = 1
  /\ op' = "status" /\ pc' = "done"
  /\ UNCHANGED <<probe_env, validation, temp_file, waitVars>>
  /\ UNCHANGED <<rate_limiter, tasks>>

(* POST /reframe/wait/{job_id}: wait_for_completion starts *)
WaitStart ==
  /\ pc = "idle"
  /\ \E job_id \in JobIds, max_wait_time \in MaxWaitTimes, poll_interval \in PollIntervals :
       req' = [ kind |-> "wait", job_id |-> job_id, max_wait_time |-> max_wait_time,
                poll_interval |-> poll_interval ]
  /\ start_time' = now
  /\ op' = "wait" /\ pc' = "polling"
  /\ UNCHANGED <<probe_env, upstream, validation, out, http, requests, temp_file,
                 now, status_response, polls, sleeps, first_terminal>>
  /\ UNCHANGED <<rate_limiter, tasks>>

(* One pass of the loop body: get_job_status, the terminal check, the      *)
(* deadline check                                                          *)
WaitPoll ==
  /\ pc = "polling"
  /\ \E answer \in StatusAnswers :
       \E d \in Duration(answer) :
         LET r == get_job_status(req.job_id, answer)
             step == wait_iteration(req.job_id, req.max_wait_time, start_time, now + d, r)
         IN  /\ now' = now + d
             /\ first_terminal' =
                  IF first_terminal = 0 /\ ~Raised(r) /\ r.value.status \in {"completed", "failed"}
                    THEN polls + 1 ELSE first_terminal
             /\ status_response' = IF Raised(r) THEN NoStatus ELSE r.value
             /\ IF step.next = "sleep"
                  THEN /\ pc' = "sleeping"
                       /\ UNCHANGED <<out, http>>
                  ELSE /\ pc' = "done"
                       /\ out' = IF step.next = "raise" THEN [ exc |-> step.exc ]
                                 ELSE [ exc |-> NoExc, value |-> step.value ]
                       /\ http' = wait_for_reframe_completion(out')
  /\ polls' = polls + 1
  /\ requests' = requests + 1
  /\ UNCHANGED <<op, req, probe_env, upstream, validation, temp_file, start_time, sleeps>>
  /\ UNCHANGED <<rate_limiter, tasks>>

(* await asyncio.sleep(poll_interval) *)
WaitSleep ==
  /\ pc = "sleeping"
  /\ now' = now + req.poll_interval
  /\ sleeps' = sleeps + 1
  /\ pc' = "polling"
  /\ UNCHANGED <<op, req, probe_env, upstream, validation, out, http, requests, temp_file,
                 start_time, status_response, polls, first_terminal>>
  /\ UNCHANGED <<rate_limiter, tasks>>

(* The request is over; the next one starts from a fresh service object    *)
(* and, if it probes, stages a new temporary file.                         *)
Finish ==
  /\ pc = "done"
  /\ pc' = "idle" /\ op' = "none" /\ req' = NoReq
  /\ probe_env' = NoProbe /\ upstream' = NoAnswer
  /\ validation' = NoValidation /\ out' = NoOut /\ http' = NoHttp
  /\ requests' = 0 /\ temp_file' = "none"
  /\ now' = 0 /\ start_time' = 0 /\ status_response' = NoStatus
  /\ polls' = 0 /\ sleeps' = 0 /\ first_terminal' = 0
  /\ UNCHANGED <<rate_limiter, tasks>>

Next ==
  \/ ValidateVideo
  \/ UploadVideo
  \/ ReframeVideo
  \/ GetReframeStatus
  \/ WaitStart
  \/ WaitPoll
  \/ WaitSleep
  \/ Finish

Spec == Init /\ [][Next]_vars


----------------------------------------------------------------------------
(* The rate limiter on its own: calls of check_client_rate_limit and the   *)
(* passing of time.  No endpoint depends on it, so the requests above do   *)
(* not move it.                                                            *)

MaxLimiterSteps == 5

Hosts == { "10.0.0.1", "10.0.0.2" }

LimiterRequests == { [ client |-> None ] } \cup { [ client |-> Some(h) ] : h \in Hosts }

(* time.time() when the model starts to watch the limiter *)
WatchTime == 1000

(* 59 calls accepted ten seconds ago *)
Burst59 == [ t \in {990} |-> 59 ]

(* 999 calls accepted over the last 1000 seconds, 59 at each full minute   *)
(* and 55 at the last one                                                  *)
Hour999 == [ t \in { 60 * m : m \in 0..16 } |-> IF t = 960 THEN 55 ELSE 59 ]

(* self._requests when the model starts to watch: lists that accepted      *)
(* calls have built                                                        *)
WatchedRequests ==
  { [ k \in K |-> d[k] ] :
      K \in SUBSET Hosts,
      d \in [ Hosts -> { Burst59, Hour999 } ] }

(* How far the wall clock moves between two calls *)
Ticks == { 10, 50, 2600 }

LimiterInit ==
  /\ RequestInit
  /\ tasks = NoTasks
  /\ \E d \in WatchedRequests : rate_limiter = RateLimiter(d, WatchTime)

(* One call of the FastAPI dependency check_client_rate_limit *)
CheckClientRateLimit ==
  /\ rate_limiter.steps < MaxLimiterSteps
  /\ \E request \in LimiterRequests :
       LET client_ip == IF request.client # None THEN request.client[1] ELSE "unknown"
           r == check_client_rate_limit(rate_limiter._requests, request, rate_limiter.time)
           log == IF client_ip \in DOMAIN rate_limiter.accepted
                    THEN rate_limiter.accepted[client_ip] ELSE EmptyList
       IN  rate_limiter' =
             [ _requests |-> r._requests,
               time      |-> rate_limiter.time,
               accepted  |-> IF Raised(r) THEN rate_limiter.accepted
                             ELSE set_item(rate_limiter.accepted, client_ip,
                                           append_time(log, rate_limiter.time)),
               steps     |-> rate_limiter.steps + 1,
               last      |-> [ client_ip |-> client_ip, time |-> rate_limiter.time,
                               exc |-> r.exc, before |-> rate_limiter._requests ] ]
  /\ UNCHANGED <<requestVars, tasks>>

(* Time passes *)
ClockTick ==
  /\ rate_limiter.steps < MaxLimiterSteps
  /\ \E d \in Ticks :
       rate_limiter' = [ rate_limiter EXCEPT !.time = @ + d, !.steps = @ + 1 ]
  /\ UNCHANGED <<requestVars, tasks>>

NextLimiter ==
  \/ CheckClientRateLimit
  \/ ClockTick

SpecLimiter == LimiterInit /\ [][NextLimiter]_vars

----------------------------------------------------------------------------
(* Requests in flight together.  FastAPI runs every request as a task of   *)
(* one event loop: a task runs until its next await, then another task may *)
(* run.  get_fal_service and get_picadabra_service build a new service     *)
(* object for every request, VideoValidator has static and class methods   *)
(* only, and everything a call uses is a local of its coroutine; what the  *)
(* tasks share is the clock of the loop.  Next to each task the model      *)
(* keeps `alone`: the same call on a loop of its own, given the same       *)
(* answers and the same time spent in each await.                          *)

MaxTasks == 2

TaskIds == 1..MaxTasks

NoCall == [ op |-> "none" ]

NoStep == [ next |-> "none" ]

NewTask ==
  [ pc |-> "new", call |-> NoCall, start_time |-> 0, since |-> 0, wake |-> 0,
    awaited |-> NoAnswer, step |-> NoStep,
    alone |-> [ clock |-> 0, step |-> NoStep ] ]

(* The answers and the inputs of the requests in flight *)
TaskStatusAnswers ==
  { a \in StatusAnswers :
      \/ a.kind = "timeout"
      \/ /\ a.kind = "response" /\ a.status_code = 200 /\ a.json_ok
         /\ a.body \in { [ status |-> Some("IN_PROGRESS") ],
                         [ status |-> Some("COMPLETED"), video_url |-> Some(OtherUrl) ] } }

TaskSubmitAnswers ==
  { a \in SubmitAnswers :
      \/ a.kind = "response" /\ a.status_code = 500
      \/ /\ a.kind = "response" /\ a.status_code = 200 /\ a.json_ok
         /\ a.body = [ request_id |-> Some("job-1") ] }

TaskUploadAnswers ==
  { a \in UploadAnswers :
      \/ a.kind = "response" /\ a.status_code = 502
      \/ /\ a.kind = "response" /\ a.status_code = 200 /\ a.json_ok
         /\ a.body = [ success |-> Some(TRUE), url |-> Some(UploadsUrl), message |-> None ] }

TaskUploadRequest ==
  [ kind |-> "upload", mimeType |-> <<"video", "mp4">>,
    base64Data |-> << [ chars |-> 12, pads |-> 0, ascii |-> TRUE ] >>,
    fileName |-> "a.mp4", prefix |-> "uploads/videos" ]

TaskProbes ==
  { p \in Probes : /\ p.write_ok /\ (p.opened <=> p.props_ok) /\ p.width \in {0, 1920}
                   /\ p.height \in {0, 1080} /\ (p.opened <=> p.fps = 30)
                   /\ p.fourcc \in {0, 828601953} }

(* The answers to the polls of wait_for_completion *)
TaskPollAnswers == { a \in TaskStatusAnswers : a.kind = "response" }

TaskCalls ==
  { [ op |-> "wait", job_id |-> j, max_wait_time |-> 30, poll_interval |-> 30 ] : j \in JobIds }
  \cup { [ op |-> "status", job_id |-> j ] : j \in JobIds }
  \cup { [ op |-> "reframe", reframe_request |-> r ] : r \in ReframeRequests }
  \cup { [ op |-> "upload", upload_request |-> TaskUploadRequest, probe |-> p ] : p \in TaskProbes }
  \cup { [ op |-> "validate", upload_request |-> TaskUploadRequest, probe |-> p ] : p \in TaskProbes }

(* How long the loop is held by the synchronous decode and probe of        *)
(* validate_video, which runs without an await                             *)
BlockingTimes == { 0, 2 }

(* How long an upstream call that is answered takes *)
TaskDurations == { 0, 29 }

TaskDuration(answer) == IF answer.kind = "timeout" THEN { STATUS_TIMEOUT } ELSE TaskDurations

(* start_time of wait_for_completion as if it were kept on an object that  *)
(* all requests share: the last one written                                *)
local_start_time_m(ts, t) ==
  LET u == CHOOSE u \in DOMAIN ts : \A v \in DOMAIN ts : ts[u].start_time >= ts[v].start_time
  IN  ts[u].start_time

(* start_time of wait_for_completion: a local of the coroutine of task t *)
local_start_time(ts, t) == ts[t].start_time

(* What a call that awaits one upstream answer returns on that answer *)
call_result(call, answer) ==
  IF call.op = "status" THEN get_reframe_status(get_job_status(call.job_id, answer))
  ELSE IF call.op = "reframe"
    THEN reframe_video(submit_reframe_job(call.reframe_request, answer))
  ELSE upload_endpoint(call.upload_request, call.probe, answer).http

(* What the synchronous part of a call gives: validate_video *)
call_validation(call) ==
  validate_video(call.upload_request.base64Data, call.upload_request.mimeType, call.probe)

TasksInit ==
  /\ RequestInit
  /\ rate_limiter = RateLimiter(EmptyDict, 0)
  /\ tasks = [ t \in TaskIds |-> NewTask ]

staticVars == <<pc, op, req, probe_env, upstream, validation, out, http, requests, temp_file,
                start_time, status_response, polls, sleeps, first_terminal, rate_limiter>>

(* A request arrives and its task runs up to its first await; the tasks  *)
(* are numbered in the order in which their requests arrive.             *)
TaskStart(t) ==
  /\ tasks[t].pc = "new"
  /\ \A u \in TaskIds : u < t => tasks[u].pc # "new"
  /\ \E call \in TaskCalls :
       IF call.op \in {"upload", "validate"}
         THEN \E b \in BlockingTimes, answer \in TaskUploadAnswers :
                LET v == call_validation(call)
                    ends == call.op = "validate" \/ ~v.value.is_valid
                    step == IF call.op = "validate" THEN [ next |-> "return", value |-> v.value ]
                            ELSE IF ends
                              THEN [ next |-> "return",
                                     value |-> upload_endpoint(call.upload_request, call.probe, NoAnswer).http ]
                            ELSE NoStep
                IN  /\ now' = now + b
                    /\ tasks' = [ tasks EXCEPT ![t] =
                         [ pc |-> IF ends THEN "done" ELSE "awaiting", call |-> call,
                           start_time |-> now, since |-> now + b, wake |-> now + b + 1,
                           awaited |-> IF ends THEN NoAnswer ELSE answer,
                           step |-> step,
                           alone |-> [ clock |-> b, step |-> step ] ] ]
       ELSE IF call.op = "wait"
         THEN \E answer \in TaskPollAnswers : \E d \in TaskDuration(answer) :
                /\ now' = now
                /\ tasks' = [ tasks EXCEPT ![t] =
                     [ pc |-> "polling", call |-> call,
                       start_time |-> now, since |-> now, wake |-> now + d,
                       awaited |-> answer, step |-> NoStep,
                       alone |-> [ clock |-> 0, step |-> NoStep ] ] ]
       ELSE \E answer \in ( IF call.op = "status" THEN TaskStatusAnswers ELSE TaskSubmitAnswers ) :
              /\ now' = now
              /\ tasks' = [ tasks EXCEPT ![t] =
                   [ pc |-> "awaiting", call |-> call,
                     start_time |-> now, since |-> now, wake |-> now + 1,
                     awaited |-> answer, step |-> NoStep,
                     alone |-> [ clock |-> 0, step |-> NoStep ] ] ]
  /\ UNCHANGED staticVars

(* The upstream answer of a status, submit or upload request arrives *)
TaskAnswered(t) ==
  /\ tasks[t].pc = "awaiting"
  /\ tasks[t].wake <= now
  /\ LET me == tasks[t]
         step == [ next |-> "return", value |-> call_result(me.call, me.awaited) ]
     IN  tasks' = [ tasks EXCEPT ![t] =
           [ me EXCEPT !.pc = "done", !.step = step,
                       !.alone = [ clock |-> me.alone.clock + (now - me.since), step |-> step ] ] ]
  /\ UNCHANGED <<now, staticVars>>

(* wait_for_completion resumes after get_job_status: the terminal test and *)
(* the deadline test, on the loop's clock and, alone, on its own.          *)
TaskPolled(t) ==
  /\ tasks[t].pc = "polling"
  /\ tasks[t].wake <= now
  /\ LET me == tasks[t]
         r == get_job_status(me.call.job_id, me.awaited)
         step == wait_iteration(me.call.job_id, me.call.max_wait_time,
                                local_start_time(tasks, t), now, r)
         alone_clock == me.alone.clock + (now - me.since)
         alone_step == wait_iteration(me.call.job_id, me.call.max_wait_time, 0, alone_clock, r)
     IN  tasks' = [ tasks EXCEPT ![t] =
           [ me EXCEPT !.pc = IF step.next = "sleep" THEN "sleeping" ELSE "done",
                       !.since = now,
                       !.wake = now + me.call.poll_interval,
                       !.step = step,
                       !.alone = [ clock |-> alone_clock, step |-> alone_step ] ] ]
  /\ UNCHANGED <<now, staticVars>>

(* wait_for_completion resumes after asyncio.sleep and polls again *)
TaskSlept(t) ==
  /\ tasks[t].pc = "sleeping"
  /\ tasks[t].wake <= now
  /\ \E answer \in TaskPollAnswers : \E d \in TaskDuration(answer) :
       LET me == tasks[t]
       IN  tasks' = [ tasks EXCEPT ![t] =
             [ me EXCEPT !.pc = "polling", !.since = now, !.wake = now + d,
                         !.awaited = answer,
                         !.alone = [ clock |-> me.alone.clock + (now - me.since),
                                     step |-> me.alone.step ] ] ]
  /\ UNCHANGED <<now, staticVars>>

Waiting(t) == tasks[t].pc \in {"awaiting", "polling", "sleeping"}

(* No task can run: the loop waits for the earliest wake-up *)
LoopIdle ==
  /\ \E t \in TaskIds : Waiting(t)
  /\ \A t \in TaskIds : Waiting(t) => tasks[t].wake > now
  /\ \E t \in TaskIds :
       /\ Waiting(t)
       /\ \A u \in TaskIds : Waiting(u) => tasks[t].wake <= tasks[u].wake
       /\ now' = tasks[t].wake
  /\ UNCHANGED <<tasks, staticVars>>

NextTasks ==
  \/ \E t \in TaskIds : TaskStart(t)
  \/ \E t \in TaskIds : TaskAnswered(t)
  \/ \E t \in TaskIds : TaskPolled(t)
  \/ \E t \in TaskIds : TaskSlept(t)
  \/ LoopIdle

SpecTasks == TasksInit /\ [][NextTasks]_vars

----------------------------------------------------------------------------
(* Properties *)

Validated == pc = "done" /\ op \in {"validate", "upload"}

ReqText == IF op = "validate" THEN req.base64_data ELSE req.base64Data

ReqMime == IF op = "validate" THEN req.mime_type ELSE req.mimeType

Decodes == ~Raised(decode_base64_video(ReqText))

DecodedLen == decode_base64_video(ReqText).len

ProbeOk == probe_env.write_ok /\ probe_env.opened /\ probe_env.props_ok

Count(errors, P(_)) == Cardinality({ i \in 1..Len(errors) : P(errors[i]) })

IsSizeMessage(m) == m[1] = "File size ("

IsProbeMessage(m) == m[1] = "Cannot analyze video: "

IsResolutionMessage(m) == m[1] = "Video resolution ("

IsFormatMessage(m) == m[1] = "Video format '"

IsSynthesized(m) == m[1] = "Validation failed: "

SizeMessage(file_size) ==
  <<"File size (", ToString(file_size), " bytes) exceeds maximum allowed size (",
    ToString(MAX_FILE_SIZE), " bytes)">>

TerminalStatuses == {"completed", "failed"}

WaitTimedOut ==
  /\ op = "wait" /\ pc = "done" /\ Raised(out)
  /\ out.exc.message = <<"Job ", req.job_id, " timed out">>

(* C1: wait_for_completion with poll_interval 5 and max_wait_time 30,     *)
(* every poll of which is answered with a non-terminal status, raises its  *)
(* timeout failure no later than 30 + 5 seconds after it started, however  *)
(* long the get_job_status calls take.                                     *)
C1_TimeoutWithinBound ==
  (WaitTimedOut /\ req.max_wait_time = 30 /\ req.poll_interval = 5)
    => now - start_time <= req.max_wait_time + req.poll_interval

C3_NotFoundCarries404 ==
  (op = "status" /\ pc = "done" /\ upstream.kind = "response" /\ upstream.status_code = 404)
    => /\ Raised(out)
       /\ out.exc.status_code = 404
       /\ http.status_code = 404

(* C4: a payload that decodes to more than MAX_FILE_SIZE bytes is          *)
(* returned as invalid with the size message among its errors, whether     *)
(* the probe succeeds or fails and whatever else is reported.              *)
C4_OversizeRejected ==
  (Validated /\ Decodes /\ DecodedLen > MAX_FILE_SIZE)
    => /\ ~Raised(validation)
       /\ ~validation.value.is_valid
       /\ InList(SizeMessage(DecodedLen), validation.value.errors)

C4_Witness ==
  /\ Validated /\ Decodes /\ DecodedLen > MAX_FILE_SIZE
  /\ ~ProbeOk
  /\ Len(validation.value.errors) = 2
  /\ IsProbeMessage(validation.value.errors[2])

C6_ValidIffNoErrors ==
  (Validated /\ ~Raised(validation))
    => (validation.value.is_valid <=> Len(validation.value.errors) = 0)

C6_Witness ==
  /\ Validated /\ Decodes /\ ~ProbeOk
  /\ DecodedLen <= MAX_FILE_SIZE
  /\ ~validation.value.is_valid
  /\ Len(validation.value.errors) = 1

(* C7: validate_video never raises; a text that does not decode gives an   *)
(* invalid result with exactly one, synthesized, error and with width,     *)
(* height, duration and format unset.                                      *)
C7_NeverRaises ==
  Validated
    => /\ ~Raised(validation)
       /\ ~Decodes
            => /\ ~validation.value.is_valid
               /\ Len(validation.value.errors) = 1
               /\ IsSynthesized(validation.value.errors[1])
               /\ validation.value.width = None
               /\ validation.value.height = None
               /\ validation.value.duration = None
               /\ validation.value.format = None

C7_Witness ==
  /\ Validated /\ ~Decodes
  /\ validation.value.errors = << <<"Validation failed: ", "Invalid base64 video data">> >>

(* C8: the temporary file of the probe no longer exists when the probe     *)
(* call has ended, on every exit path.                                     *)
C8_TempFileRemoved ==
  (Validated /\ validation.probed) => temp_file = "removed"

(* C9: when the upload provider answers 200 with success false, or with    *)
(* no url, upload_video raises an upload failure whose message contains    *)
(* the provider's message; it does not return a result.                    *)
C9_LogicalFailureRaises ==
  (/\ op = "upload" /\ pc = "done" /\ requests = 1
   /\ upstream.kind = "response" /\ upstream.status_code = 200 /\ upstream.json_ok
   /\ upstream.body.success # None
   /\ (upstream.body.success = Some(FALSE) \/ upstream.body.url = None))
    => /\ Raised(out)
       /\ IsInstance(out.exc.cls, "PicadabraAPIException")
       /\ upstream.body.message # None
            => Contains(out.exc.message, upstream.body.message[1])
       /\ "body" \notin DOMAIN http

C9_Witness ==
  /\ op = "upload" /\ pc = "done" /\ requests = 1
  /\ upstream.kind = "response" /\ upstream.status_code = 200 /\ upstream.json_ok
  /\ upstream.body.success = Some(FALSE)
  /\ upstream.body.url = Some(UploadsUrl)
  /\ upstream.body.message = Some("quota exceeded")
  /\ Raised(out)
  /\ Contains(out.exc.message, "quota exceeded")

(* C10: when the provider answers upload or submit with a non-success      *)
(* HTTP status S, the failure that leaves the client carries status S and  *)
(* the endpoint responds S.                                                *)
C10_UpstreamStatusCarried ==
  (/\ op \in {"upload", "reframe"} /\ pc = "done" /\ requests = 1
   /\ upstream.kind = "response" /\ upstream.status_code >= 400)
    => /\ Raised(out)
       /\ out.exc.status_code = upstream.status_code
       /\ http.status_code = upstream.status_code

(* C11: in the upload endpoint a request reaches the upload provider only  *)
(* after validate_video returned is_valid true for the payload of that     *)
(* request; when the result is invalid no request is sent.                 *)
C11_UploadOnlyAfterValid ==
  (op = "upload" /\ pc = "done")
    => /\ validation = validate_video(req.base64Data, req.mimeType, probe_env)
       /\ requests <= 1
       /\ requests = 1 => (~Raised(validation) /\ validation.value.is_valid)
       /\ (Raised(validation) \/ ~validation.value.is_valid)
            => (requests = 0 /\ upstream = NoAnswer)

C11_Witness ==
  /\ op = "upload" /\ pc = "done"
  /\ ~Raised(validation) /\ ~validation.value.is_valid
  /\ requests = 0
  /\ http.status_code >= 400

(* C12: every error response of an endpoint, whatever the failure came     *)
(* from, has a detail with exactly the three fields error, message and     *)
(* details.                                                                *)
C12_ThreeFieldErrorShape ==
  (pc = "done" /\ "detail" \in DOMAIN http)
    => DOMAIN http.detail = {"error", "message", "details"}

StatusReturned == op = "status" /\ pc = "done" /\ ~Raised(out)

KnownStatuses == {"submitted", "in_progress", "completed", "failed", "unknown"}

(* C13: the status of every job that get_job_status returns is one of      *)
(* submitted, in_progress, completed, failed, unknown.                     *)
C13_StatusInKnownSet ==
  StatusReturned => out.value.status \in KnownStatuses

(* C14: in every job that get_job_status returns, progress is set only     *)
(* with status in_progress (0.5 when the provider omits it), result_url    *)
(* only with completed, error_message only with failed (the default text   *)
(* when the provider omits it); a failed job always has an error_message   *)
(* and at most one of the three fields is set.                             *)
C14_FieldsFollowStatus ==
  StatusReturned
    => LET job == out.value
           data == upstream.body
           set == { f \in {"progress", "result_url", "error_message"} : job[f] # None }
       IN  /\ job.progress # None => job.status = "in_progress"
           /\ job.result_url # None => job.status = "completed"
           /\ job.error_message # None => job.status = "failed"
           /\ job.status = "failed" => job.error_message # None
           /\ Cardinality(set) <= 1
           /\ (job.status = "in_progress" /\ "progress" \notin DOMAIN data)
                => job.progress = Some(50)
           /\ (job.status = "failed" /\ "error" \notin DOMAIN data)
                => job.error_message = Some("Job failed without error message")

C16_NoRetry ==
  /\ (pc = "done" /\ op \in {"upload", "reframe", "status"})
       => /\ requests <= 1
          /\ (requests = 1 /\ (upstream.kind # "response" \/ upstream.status_code >= 400))
               => Raised(out)
  /\ op = "wait"
       => /\ requests = polls
          /\ (polls > 0 /\ status_response = NoStatus)
               => /\ pc = "done"
                  /\ Raised(out)
                  /\ sleeps = polls - 1

C16_Witness ==
  /\ op = "wait" /\ pc = "done"
  /\ polls = 2 /\ requests = 2 /\ sleeps = 1
  /\ status_response = NoStatus
  /\ Raised(out)
  /\ out.exc.message = <<"Status check timed out">>

UploadReturned == op = "upload" /\ pc = "done" /\ requests = 1 /\ ~Raised(out)

HasUploadsSegment(url) ==
  \E i \in 1..Len(url) : 1 < i /\ i < Len(url) /\ url[i] = <<"uploads">>

(* C17: the file_id of an upload result is a function of the returned URL  *)
(* alone: with an /uploads/ segment it is the last path segment up to its  *)
(* first '.', without one it is None; the extraction never raises, so      *)
(* every answer with success and a URL gives a result.                     *)
C17_FileIdOfUrl ==
  /\ UploadReturned
       => LET url == out.value.url
              filename == url[Len(url)]
          IN  /\ Some(url) = upstream.body.url
              /\ HasUploadsSegment(url) => out.value.file_id = Some(Head(filename))
              /\ ~HasUploadsSegment(url) => out.value.file_id = None
  /\ (/\ op = "upload" /\ pc = "done" /\ requests = 1
      /\ upstream.kind = "response" /\ upstream.status_code = 200 /\ upstream.json_ok
      /\ upstream.body.success = Some(TRUE)
      /\ upstream.body.url \notin { None, Some(EmptyUrl) })
       => ~Raised(out)

C17_Witness ==
  /\ UploadReturned
  /\ out.value.url = DottedUploadsUrl
  /\ out.value.file_id = Some("clip")

FormatChecked ==
  Validated /\ Decodes /\ ProbeOk /\ ReqMime # None /\ Len(ReqMime) > 1

(* What the format check shows of a token: the check reports it exactly    *)
(* when it is not an allowed extension, and names it in its message.       *)
TokenIs(token) ==
  LET errors == validation.value.errors
  IN  /\ Count(errors, IsFormatMessage) = IF InList(token, ALLOWED_VIDEO_EXTENSIONS) THEN 0 ELSE 1
      /\ \A i \in 1..Len(errors) : IsFormatMessage(errors[i]) => errors[i][2] = token

C19_InvalidVideoIs400 ==
  (op = "upload" /\ pc = "done" /\ ~Raised(validation) /\ ~validation.value.is_valid)
    => /\ http.status_code = 400
       /\ "validation_errors" \in DOMAIN http.detail
       /\ http.detail.validation_errors = validation.value.errors
       /\ "video_info" \in DOMAIN http.detail

Elapsed == now - start_time

(* The last poll of a wait was answered with a status that is not terminal *)
NonTerminalPolled ==
  /\ op = "wait" /\ pc \in {"sleeping", "done"}
  /\ status_response # NoStatus
  /\ status_response.status \notin TerminalStatuses

(* C20: each round of wait_for_completion is poll, terminal check,         *)
(* deadline check, sleep.  After a poll answered with any non-terminal     *)
(* status the loop goes on to sleep while the elapsed time is within       *)
(* max_wait_time and raises the timeout failure as soon as it exceeds it:  *)
(* no sleep starts past the deadline and no non-terminal job is returned.  *)
C20_LoopOrder ==
  /\ NonTerminalPolled
       => /\ Elapsed <= req.max_wait_time => pc = "sleeping"
          /\ Elapsed > req.max_wait_time => WaitTimedOut
  /\ (op = "wait" /\ pc = "sleeping")
       => (NonTerminalPolled /\ Elapsed <= req.max_wait_time /\ sleeps = polls - 1)
  /\ (op = "wait" /\ pc = "polling") => sleeps = polls
  /\ (op = "wait" /\ pc = "done")
       => /\ sleeps = polls - 1
          /\ ~Raised(out) => out.value.status \in TerminalStatuses
  /\ WaitTimedOut
       => /\ NonTerminalPolled
          /\ Elapsed > req.max_wait_time
          /\ out.exc.details.elapsed_time = Elapsed

C20_Witness ==
  /\ WaitTimedOut
  /\ status_response.status = "in_queue"
  /\ polls = 3 /\ sleeps = 2
  /\ Elapsed > req.max_wait_time

RECURSIVE SumChars(_)
SumChars(pieces) ==
  IF Len(pieces) = 0 THEN 0 ELSE pieces[1].chars + SumChars(Tail(pieces))

(* The pieces read as one text with the commas between them, which         *)
(* b64decode discards: defined when only the last piece is padded.         *)
Joined(pieces) ==
  [ chars |-> SumChars(pieces),
    pads  |-> pieces[Len(pieces)].pads,
    ascii |-> \A i \in 1..Len(pieces) : pieces[i].ascii ]

OnlyLastPadded(pieces) == \A i \in 1..(Len(pieces) - 1) : pieces[i].pads = 0

(* validate_video decoded `payload`: it went on to the probe exactly when  *)
(* the payload decodes, and the size it reports is the payload's.          *)
DecodedAs(payload) ==
  /\ probe_env # NoProbe <=> ~Raised(b64decode(payload))
  /\ (~Raised(validation) /\ validation.value.size # None)
       => validation.value.size = Some(b64decode(payload).len)

(* C21: with one or more commas in the base64 input the payload decoded    *)
(* is everything after the first comma, later commas included; with no     *)
(* comma the whole input is decoded.                                       *)
C21_PayloadAfterFirstComma ==
  (Validated /\ OnlyLastPadded(Tail(ReqText)))
    => IF Len(ReqText) = 1
         THEN DecodedAs(ReqText[1])
         ELSE DecodedAs(Joined(Tail(ReqText)))

(* The MIME type is a string with a subtype *)
HasSubtype(mime_type) == mime_type # None /\ Len(mime_type) > 1

(* The format token of a MIME type with a subtype *)
TokenOf(mime_type) ==
  LET subtype == lower(mime_type[2])
  IN  IF subtype = "quicktime" THEN "mov" ELSE subtype

Rank(m) ==
  IF IsSizeMessage(m) THEN 1
  ELSE IF IsProbeMessage(m) \/ IsResolutionMessage(m) THEN 2
  ELSE IF IsFormatMessage(m) THEN 3
  ELSE 4

(* C23: when the probe fails validate_video adds exactly one error for     *)
(* it, no resolution and no format error, and leaves width, height,        *)
(* duration and format unset; the errors are always in the order size,     *)
(* then the probe error or the resolution error followed by the format     *)
(* error.                                                                  *)
C23_ProbeFailureAndOrder ==
  (Validated /\ Decodes)
    => LET errors == validation.value.errors
       IN  /\ ~Raised(validation)
           /\ ~ProbeOk
                => /\ Count(errors, IsProbeMessage) = 1
                   /\ Count(errors, IsResolutionMessage) = 0
                   /\ Count(errors, IsFormatMessage) = 0
                   /\ validation.value.width = None
                   /\ validation.value.height = None
                   /\ validation.value.duration = None
                   /\ validation.value.format = None
           /\ ProbeOk => Count(errors, IsProbeMessage) = 0
           /\ \A i, j \in 1..Len(errors) : i < j => Rank(errors[i]) < Rank(errors[j])

C23_Witness ==
  /\ Validated /\ Decodes
  /\ ~probe_env.write_ok
  /\ DecodedLen > MAX_FILE_SIZE
  /\ Len(validation.value.errors) = 2
  /\ IsSizeMessage(validation.value.errors[1])
  /\ validation.value.errors[2] = <<"Cannot analyze video: ", "No space left on device">>
  /\ validation.value.width = None

(* C24: for every MIME type string given to the format check an error is   *)
(* produced unless its format token is allowed, and the outcome depends    *)
(* on the MIME type alone, whatever format code was probed.  A string      *)
(* without a subtype is taken as its own token.                            *)
C24_FormatByMimeOnly ==
  (Validated /\ Decodes /\ ProbeOk /\ ReqMime # None)
    => LET token == IF HasSubtype(ReqMime) THEN TokenOf(ReqMime) ELSE ReqMime[1]
       IN  Count(validation.value.errors, IsFormatMessage)
             = IF InList(token, ALLOWED_VIDEO_EXTENSIONS) THEN 0 ELSE 1

C28_ExactlyOneOfJobIdAndUrl ==
  (op = "reframe" /\ pc = "done" /\ ~Raised(out) /\ out.value.success)
    => /\ (out.value.job_id # None) # (out.value.result_url # None)
       /\ out.value.job_id # None => out.value.status = Some("submitted")
       /\ out.value.result_url # None => out.value.status = Some("completed")
       /\ ("request_id" \in DOMAIN upstream.body /\ "video_url" \in DOMAIN upstream.body)
            => /\ out.value.status = Some("submitted")
               /\ out.value.job_id = upstream.body.request_id

(* The entries of a list within [from, from + length) *)
InWindow(list, from, length) ==
  len([ t \in { u \in DOMAIN list : from <= u /\ u < from + length } |-> list[t] ])

ListOf(dict, client_ip) == IF client_ip \in DOMAIN dict THEN dict[client_ip] ELSE EmptyList

CountAt(list, t) == IF t \in DOMAIN list THEN list[t] ELSE 0

(* C27: a rejected check_rate_limit call is not recorded and an accepted   *)
(* one is, so for every client the accepted calls within any 60 seconds    *)
(* are at most 60 and within any 3600 seconds at most 1000; a call for     *)
(* one client changes neither the record nor the outcome of another.       *)
C27_RateLimiter ==
  LET last == rate_limiter.last
  IN  /\ last.client_ip # "none"
           => LET mine    == ListOf(last.before, last.client_ip)
                  in_hour == len(younger_than(mine, last.time, 3600))
                  in_min  == len(younger_than(mine, last.time, 60))
                  after   == rate_limiter._requests[last.client_ip]
              IN  /\ last.exc.cls = "none" <=> (in_hour < 1000 /\ in_min < 60)
                  /\ last.exc.cls # "none"
                       => /\ last.exc.status_code = 429
                          /\ after = younger_than(mine, last.time, 3600)
                  /\ last.exc.cls = "none"
                       => /\ len(after) = in_hour + 1
                          /\ CountAt(after, last.time) = CountAt(mine, last.time) + 1
                  /\ DOMAIN rate_limiter._requests = DOMAIN last.before \cup {last.client_ip}
                  /\ \A c \in DOMAIN last.before \ {last.client_ip} :
                       rate_limiter._requests[c] = last.before[c]
      /\ \A c \in DOMAIN rate_limiter.accepted :
           \A from \in DOMAIN rate_limiter.accepted[c] :
             /\ InWindow(rate_limiter.accepted[c], from, 60) <= 60
             /\ InWindow(rate_limiter.accepted[c], from, 3600) <= 1000

C27_Witness ==
  /\ rate_limiter.last.client_ip = "10.0.0.1"
  /\ rate_limiter.last.exc.cls = "HTTPException"
  /\ rate_limiter.last.exc.detail = "Hourly rate limit exceeded"
  /\ len(rate_limiter._requests["10.0.0.1"]) = 1000
  /\ "10.0.0.2" \in DOMAIN rate_limiter._requests
  /\ len(rate_limiter._requests["10.0.0.2"]) = 60

====
